---- MODULE Spec2Model ----
(***************************************************************************)
(* Puzzle Zone: the seven Astro actions over the PuzzleTemplates,          *)
(* PuzzleSessions and PuzzleAttempts tables, and the seed.                 *)
(*                                                                         *)
(* A table is the sequence of its rows in insertion order.  A text column  *)
(* that is NULL holds Null; an optional input that is absent holds         *)
(* Undefined; an optional number or date is <<>> when NULL/absent and      *)
(* <<v>> otherwise.                                                        *)
(*                                                                         *)
(* A handler runs from one await to the next in one step.  Each awaited    *)
(* statement takes three steps: the handler issues it and goes to sleep,   *)
(* the database executes it, and the handler wakes up with its result.     *)
(* Every step of every other request, and the clock, may come between.     *)
(* pending is the bag of the requests that are asleep, each with the place *)
(* it sleeps at and the locals it will read when it wakes up.              *)
(***************************************************************************)
EXTENDS Integers, Sequences, FiniteSets, Bags, TLC

\* ------------------------------------------------------------- bounds
\* the requests of a run, the requests asleep at once, the clock's last value,
\* and the generated ids per table that a caller may name
MaxRequests == 4
MaxInflight == 2
MaxClock == 1
MaxTemplateIds == 1
MaxSessionIds == 1

\* ------------------------------------------------------------- values
Users == {"u1", "u2"}
NoUser == "<no user>"
Callers == Users \cup {NoUser}

Null == "<null>"
Undefined == "<undefined>"

SeedId == "system-puzzle-sample"

VARIABLES templates, sessions, attempts, attemptBy, clock, pending, response,
          started

vars == <<templates, sessions, attempts, attemptBy, clock, pending, response,
          started>>
tables == <<templates, sessions, attempts>>

\* crypto.randomUUID(): an id no row of the table has
TemplateUuid(n) == "t" \o ToString(n)
SessionUuid(n) == "s" \o ToString(n)
AttemptUuid(n) == "a" \o ToString(n)

\* ids a caller may send: the seeded one and the first generated ones
\* (an id names no row until the insert that takes it has been executed)
TemplateIdSpace == {SeedId} \cup {TemplateUuid(n) : n \in 1..MaxTemplateIds}
SessionIdSpace == {SessionUuid(n) : n \in 1..MaxSessionIds}

\* ------------------------------------------------------------- seed
SeedRow(now) ==
  [id |-> SeedId,
   userId |-> Null,
   name |-> "Starter Puzzle",
   puzzleType |-> "logic-grid",
   difficulty |-> "easy",
   description |-> "A sample puzzle included with the starter app.",
   dataJson |-> "{\"prompt\":\"Match the pets to their owners.\"}",
   solutionJson |-> "{\"answer\":\"sample-solution\"}",
   isSystem |-> TRUE,
   createdAt |-> now,
   updatedAt |-> now]

\* ------------------------------------------------------------- helpers
\* requireUser: the user of the request context, or the UNAUTHORIZED throw
\* (faulty variant: the guard lets a request without a user through)
MutRequireUserAny(context) == TRUE
RequireUser(context) == context # NoUser

\* JavaScript truthiness of an optional string
Truthy(s) == s # Undefined /\ s # ""

\* an insert stores NULL for a value that is undefined
Stored(v) == IF v = Undefined THEN Null ELSE v

Resp(action, user, input, code, dbCalls, data) ==
  [action |-> action, user |-> user, input |-> input, code |-> code,
   dbCalls |-> dbCalls, data |-> data]

\* a request asleep on a statement.  pc is the place: "select" and "write"
\* when the statement is issued, "selected" and "written" when the database
\* has executed it.  now is the new Date() a write was built with; result is
\* what the statement gave, as far as the handler reads it.
Req(action, user, input, pc, now, result) ==
  [action |-> action, user |-> user, input |-> input, pc |-> pc, now |-> now,
   result |-> result]

\* a request arrives and its handler runs up to its first await
Sleep(req) ==
  /\ started < MaxRequests
  /\ BagCardinality(pending) < MaxInflight
  /\ pending' = pending (+) SetToBag({req})
  /\ started' = started + 1
  /\ UNCHANGED <<templates, sessions, attempts, attemptBy, clock, response>>

\* a request asleep moves on: the database executes its statement, or the
\* handler wakes up and goes to sleep on the next one
Move(req, next) ==
  /\ BagIn(req, pending)
  /\ pending' = (pending (-) SetToBag({req})) (+) SetToBag({next})
  /\ UNCHANGED started

\* the handler wakes up and returns or throws
Answer(req, code, dbCalls, data) ==
  /\ BagIn(req, pending)
  /\ pending' = pending (-) SetToBag({req})
  /\ response' = Resp(req.action, req.user, req.input, code, dbCalls, data)
  /\ UNCHANGED <<templates, sessions, attempts, attemptBy, clock, started>>

Unauthorized(action, context, input) ==
  /\ ~RequireUser(context)
  /\ started < MaxRequests
  /\ started' = started + 1
  /\ response' = Resp(action, context, input, "UNAUTHORIZED", 0, <<>>)
  /\ UNCHANGED <<templates, sessions, attempts, attemptBy, clock, pending>>

\* ------------------------------------------------------------- createPuzzleTemplate
CreateInputs ==
  {[name |-> "Test", puzzleType |-> "sudoku", difficulty |-> Undefined,
    description |-> "d", dataJson |-> "{}", solutionJson |-> Undefined]}

NewTemplate(id, user, input, now) ==
  [id |-> id,
   userId |-> user,
   name |-> input.name,
   puzzleType |-> Stored(input.puzzleType),
   difficulty |-> Stored(input.difficulty),
   description |-> Stored(input.description),
   dataJson |-> Stored(input.dataJson),
   solutionJson |-> Stored(input.solutionJson),
   isSystem |-> FALSE,
   createdAt |-> now,
   updatedAt |-> now]

\* requireUser, new Date(), and the insert issued
CreatePuzzleTemplate(context, input) ==
  \/ Unauthorized("createPuzzleTemplate", context, input)
  \/ /\ RequireUser(context)
     /\ Sleep(Req("createPuzzleTemplate", context, input, "write", <<clock>>, <<>>))

\* the database executes the insert, with the date the handler took
CreatePuzzleTemplateInsert(req) ==
  /\ req.action = "createPuzzleTemplate" /\ req.pc = "write"
  /\ LET id == TemplateUuid(Len(templates))
     IN /\ templates' = Append(templates,
                               NewTemplate(id, req.user, req.input, req.now[1]))
        /\ Move(req, [req EXCEPT !.pc = "written", !.now = <<>>, !.result = <<id>>])
  /\ UNCHANGED <<sessions, attempts, attemptBy, clock, response>>

\* the handler wakes up and returns the id
CreatePuzzleTemplateReturn(req) ==
  /\ req.action = "createPuzzleTemplate" /\ req.pc = "written"
  /\ Answer(req, "OK", 1, req.result)

\* ------------------------------------------------------------- updatePuzzleTemplate
\* one field given, two given as the empty string, three absent
UpdatePatches ==
  {[name |-> Undefined, puzzleType |-> Undefined, difficulty |-> "hard",
    description |-> "", dataJson |-> "", solutionJson |-> Undefined]}

UpdateInputs ==
  {[id |-> id, name |-> p.name, puzzleType |-> p.puzzleType,
    difficulty |-> p.difficulty, description |-> p.description,
    dataJson |-> p.dataJson, solutionJson |-> p.solutionJson] :
      id \in TemplateIdSpace, p \in UpdatePatches}

\* select().from(PuzzleTemplates).where(eq(PuzzleTemplates.id, input.id))
TemplatesById(id) ==
  LET Where(t) == t.id = id IN SelectSeq(templates, Where)

\* the columns of the selected row that the handler reads
Existing(rows) ==
  [k \in 1..Len(rows) |-> [userId |-> rows[k].userId, isSystem |-> rows[k].isSystem]]

\* existing.userId !== user.id || existing.isSystem
\* (faulty variants: only the owner test, only the system test)
MutCannotModifyOwnerOnly(existing, user) == existing.userId # user
MutCannotModifySystemOnly(existing, user) == existing.isSystem
CannotModify(existing, user) == existing.userId # user \/ existing.isSystem

\* the `updates` object applied to a row: a key is set only when the input's
\* value is truthy; updatedAt always
\* (faulty variant: a key is set whenever the input has it, the empty string too)
MutApplyUpdatesDefined(t, input, now) ==
  [t EXCEPT
     !.name = IF input.name # Undefined THEN input.name ELSE @,
     !.puzzleType = IF input.puzzleType # Undefined THEN input.puzzleType ELSE @,
     !.difficulty = IF input.difficulty # Undefined THEN input.difficulty ELSE @,
     !.description = IF input.description # Undefined THEN input.description ELSE @,
     !.dataJson = IF input.dataJson # Undefined THEN input.dataJson ELSE @,
     !.solutionJson = IF input.solutionJson # Undefined THEN input.solutionJson ELSE @,
     !.updatedAt = now]
ApplyUpdates(t, input, now) ==
  [t EXCEPT
     !.name = IF Truthy(input.name) THEN input.name ELSE @,
     !.puzzleType = IF Truthy(input.puzzleType) THEN input.puzzleType ELSE @,
     !.difficulty = IF Truthy(input.difficulty) THEN input.difficulty ELSE @,
     !.description = IF Truthy(input.description) THEN input.description ELSE @,
     !.dataJson = IF Truthy(input.dataJson) THEN input.dataJson ELSE @,
     !.solutionJson = IF Truthy(input.solutionJson) THEN input.solutionJson ELSE @,
     !.updatedAt = now]

\* update(PuzzleTemplates).set(updates).where(eq(PuzzleTemplates.id, input.id))
UpdateTemplatesWhereId(id, input, now) ==
  [i \in 1..Len(templates) |->
     IF templates[i].id = id THEN ApplyUpdates(templates[i], input, now)
     ELSE templates[i]]

\* requireUser, and the select issued
UpdatePuzzleTemplate(context, input) ==
  \/ Unauthorized("updatePuzzleTemplate", context, input)
  \/ /\ RequireUser(context)
     /\ Sleep(Req("updatePuzzleTemplate", context, input, "select", <<>>, <<>>))

\* the database executes the select
UpdatePuzzleTemplateSelect(req) ==
  /\ req.action = "updatePuzzleTemplate" /\ req.pc = "select"
  /\ Move(req, [req EXCEPT !.pc = "selected",
                           !.result = Existing(TemplatesById(req.input.id))])
  /\ UNCHANGED <<templates, sessions, attempts, attemptBy, clock, response>>

\* the handler wakes up with `existing`: the two checks, then the `updates`
\* object with its new Date(), and the update issued
UpdatePuzzleTemplateCheck(req) ==
  /\ req.action = "updatePuzzleTemplate" /\ req.pc = "selected"
  /\ \/ /\ req.result = <<>>
        /\ Answer(req, "NOT_FOUND", 1, <<>>)
     \/ /\ req.result # <<>>
        /\ CannotModify(Head(req.result), req.user)
        /\ Answer(req, "FORBIDDEN", 1, <<>>)
     \/ /\ req.result # <<>>
        /\ ~CannotModify(Head(req.result), req.user)
        /\ Move(req, [req EXCEPT !.pc = "write", !.now = <<clock>>, !.result = <<>>])
        /\ UNCHANGED <<templates, sessions, attempts, attemptBy, clock, response>>

\* the database executes the update, on the row as it is by then
UpdatePuzzleTemplateWrite(req) ==
  /\ req.action = "updatePuzzleTemplate" /\ req.pc = "write"
  /\ templates' = UpdateTemplatesWhereId(req.input.id, req.input, req.now[1])
  /\ Move(req, [req EXCEPT !.pc = "written", !.now = <<>>,
                           !.result = <<req.input.id>>])
  /\ UNCHANGED <<sessions, attempts, attemptBy, clock, response>>

\* the handler wakes up and returns the id
UpdatePuzzleTemplateReturn(req) ==
  /\ req.action = "updatePuzzleTemplate" /\ req.pc = "written"
  /\ Answer(req, "OK", 2, req.result)

\* ------------------------------------------------------------- listPuzzleTemplates
ListTemplatesInputs == {[includeSystem |-> b] : b \in BOOLEAN}

\* the conditions reduced with or(): own rows, and system rows when asked
ListTemplatesWhere(t, user, input) ==
  t.userId = user \/ (input.includeSystem /\ t.isSystem = TRUE)

ListTemplatesItems(user, input) ==
  LET Where(t) == ListTemplatesWhere(t, user, input)
  IN SelectSeq(templates, Where)

\* requireUser, the where-clause, and the select issued
ListPuzzleTemplates(context, input) ==
  \/ Unauthorized("listPuzzleTemplates", context, input)
  \/ /\ RequireUser(context)
     /\ Sleep(Req("listPuzzleTemplates", context, input, "select", <<>>, <<>>))

\* the database executes the select
ListPuzzleTemplatesSelect(req) ==
  /\ req.action = "listPuzzleTemplates" /\ req.pc = "select"
  /\ Move(req, [req EXCEPT !.pc = "selected",
                           !.result = ListTemplatesItems(req.user, req.input)])
  /\ UNCHANGED <<templates, sessions, attempts, attemptBy, clock, response>>

\* the handler wakes up and returns the rows it was given
ListPuzzleTemplatesReturn(req) ==
  /\ req.action = "listPuzzleTemplates" /\ req.pc = "selected"
  /\ Answer(req, "OK", 1, req.result)

\* ------------------------------------------------------------- startPuzzleSession
StartInputs == {[puzzleTemplateId |-> id] : id \in TemplateIdSpace}

\* and(eq(id, input.puzzleTemplateId), or(eq(userId, user.id), eq(isSystem, true)))
\* (faulty variant: the lookup by id alone)
MutStartAnyTemplate(t, user, input) == t.id = input.puzzleTemplateId
StartTemplateWhere(t, user, input) ==
  t.id = input.puzzleTemplateId /\ (t.userId = user \/ t.isSystem = TRUE)

StartTemplates(user, input) ==
  LET Where(t) == StartTemplateWhere(t, user, input)
  IN SelectSeq(templates, Where)

\* the column of the selected rows that a handler reads
Ids(rows) == [k \in 1..Len(rows) |-> rows[k].id]

\* the inserted row; completedAt, score and timeTakenSeconds are not given
NewSession(id, templateId, user, now) ==
  [id |-> id,
   puzzleTemplateId |-> templateId,
   userId |-> user,
   startedAt |-> now,
   completedAt |-> <<>>,
   status |-> "in-progress",
   score |-> <<>>,
   timeTakenSeconds |-> <<>>]

\* requireUser, and the select issued
StartPuzzleSession(context, input) ==
  \/ Unauthorized("startPuzzleSession", context, input)
  \/ /\ RequireUser(context)
     /\ Sleep(Req("startPuzzleSession", context, input, "select", <<>>, <<>>))

\* the database executes the select
StartPuzzleSessionSelect(req) ==
  /\ req.action = "startPuzzleSession" /\ req.pc = "select"
  /\ Move(req, [req EXCEPT !.pc = "selected",
                           !.result = Ids(StartTemplates(req.user, req.input))])
  /\ UNCHANGED <<templates, sessions, attempts, attemptBy, clock, response>>

\* the handler wakes up with `template`: the check, then new Date() and the
\* insert issued, with template.id
StartPuzzleSessionCheck(req) ==
  /\ req.action = "startPuzzleSession" /\ req.pc = "selected"
  /\ \/ /\ req.result = <<>>
        /\ Answer(req, "NOT_FOUND", 1, <<>>)
     \/ /\ req.result # <<>>
        /\ Move(req, [req EXCEPT !.pc = "write", !.now = <<clock>>,
                                 !.result = <<Head(req.result)>>])
        /\ UNCHANGED <<templates, sessions, attempts, attemptBy, clock, response>>

\* the database executes the insert
StartPuzzleSessionInsert(req) ==
  /\ req.action = "startPuzzleSession" /\ req.pc = "write"
  /\ LET id == SessionUuid(Len(sessions) + 1)
         templateId == Head(req.result)
     IN /\ sessions' = Append(sessions, NewSession(id, templateId, req.user, req.now[1]))
        /\ Move(req, [req EXCEPT !.pc = "written", !.now = <<>>,
                                 !.result = <<id, templateId>>])
  /\ UNCHANGED <<templates, attempts, attemptBy, clock, response>>

\* the handler wakes up and returns the two ids
StartPuzzleSessionReturn(req) ==
  /\ req.action = "startPuzzleSession" /\ req.pc = "written"
  /\ Answer(req, "OK", 2, req.result)

\* ------------------------------------------------------------- completePuzzleSession
\* status "completed" is also what the schema's default gives an absent status
CompleteChoices ==
  {[status |-> "completed", score |-> <<10>>, timeTakenSeconds |-> <<30>>],
   [status |-> "abandoned", score |-> <<>>, timeTakenSeconds |-> <<>>]}

CompleteInputs ==
  {[sessionId |-> id, status |-> c.status, score |-> c.score,
    timeTakenSeconds |-> c.timeTakenSeconds] :
      id \in SessionIdSpace, c \in CompleteChoices}

\* and(eq(PuzzleSessions.id, sessionId), eq(PuzzleSessions.userId, user.id))
\* (faulty variant: the lookup by id alone)
MutAnySessionWhere(s, user, sessionId) == s.id = sessionId
OwnSessionWhere(s, user, sessionId) == s.id = sessionId /\ s.userId = user

OwnSessions(user, sessionId) ==
  LET Where(s) == OwnSessionWhere(s, user, sessionId)
  IN SelectSeq(sessions, Where)

\* .set({status, score, timeTakenSeconds, completedAt}): the query builder
\* leaves out a key whose value is undefined
\* (faulty variants: a finished session is left as it is; completedAt only for
\* "completed")
MutCompleteSetOnce(s, input, now) ==
  IF s.completedAt # <<>> THEN s
  ELSE [s EXCEPT !.status = input.status, !.score = input.score,
                 !.timeTakenSeconds = input.timeTakenSeconds,
                 !.completedAt = <<now>>]
MutCompleteSetNoDateOnAbandon(s, input, now) ==
  [s EXCEPT
     !.status = input.status,
     !.score = IF input.score = <<>> THEN @ ELSE input.score,
     !.timeTakenSeconds =
        IF input.timeTakenSeconds = <<>> THEN @ ELSE input.timeTakenSeconds,
     !.completedAt = IF input.status = "completed" THEN <<now>> ELSE @]
CompleteSet(s, input, now) ==
  [s EXCEPT
     !.status = input.status,
     !.score = IF input.score = <<>> THEN @ ELSE input.score,
     !.timeTakenSeconds =
        IF input.timeTakenSeconds = <<>> THEN @ ELSE input.timeTakenSeconds,
     !.completedAt = <<now>>]

\* update(PuzzleSessions).set(...).where(eq(PuzzleSessions.id, input.sessionId))
UpdateSessionsWhereId(sessionId, input, now) ==
  [i \in 1..Len(sessions) |->
     IF sessions[i].id = sessionId THEN CompleteSet(sessions[i], input, now)
     ELSE sessions[i]]

\* requireUser, and the select issued
CompletePuzzleSession(context, input) ==
  \/ Unauthorized("completePuzzleSession", context, input)
  \/ /\ RequireUser(context)
     /\ Sleep(Req("completePuzzleSession", context, input, "select", <<>>, <<>>))

\* the database executes the select
CompletePuzzleSessionSelect(req) ==
  /\ req.action = "completePuzzleSession" /\ req.pc = "select"
  /\ Move(req, [req EXCEPT !.pc = "selected",
                           !.result = Ids(OwnSessions(req.user, req.input.sessionId))])
  /\ UNCHANGED <<templates, sessions, attempts, attemptBy, clock, response>>

\* the handler wakes up with `session`: the check, then the set() object with
\* its new Date(), and the update issued
CompletePuzzleSessionCheck(req) ==
  /\ req.action = "completePuzzleSession" /\ req.pc = "selected"
  /\ \/ /\ req.result = <<>>
        /\ Answer(req, "NOT_FOUND", 1, <<>>)
     \/ /\ req.result # <<>>
        /\ Move(req, [req EXCEPT !.pc = "write", !.now = <<clock>>, !.result = <<>>])
        /\ UNCHANGED <<templates, sessions, attempts, attemptBy, clock, response>>

\* the database executes the update, on the row as it is by then
CompletePuzzleSessionWrite(req) ==
  /\ req.action = "completePuzzleSession" /\ req.pc = "write"
  /\ sessions' = UpdateSessionsWhereId(req.input.sessionId, req.input, req.now[1])
  /\ Move(req, [req EXCEPT !.pc = "written", !.now = <<>>,
                           !.result = <<req.input.sessionId>>])
  /\ UNCHANGED <<templates, attempts, attemptBy, clock, response>>

\* the handler wakes up and returns the id
CompletePuzzleSessionReturn(req) ==
  /\ req.action = "completePuzzleSession" /\ req.pc = "written"
  /\ Answer(req, "OK", 2, req.result)

\* ------------------------------------------------------------- recordPuzzleAttempt
RecordChoices ==
  {[attemptIndex |-> 1, attemptDataJson |-> Undefined, isCorrect |-> FALSE]}

RecordInputs ==
  {[sessionId |-> id, attemptIndex |-> c.attemptIndex,
    attemptDataJson |-> c.attemptDataJson, isCorrect |-> c.isCorrect] :
      id \in SessionIdSpace, c \in RecordChoices}

NewAttempt(id, input, now) ==
  [id |-> id,
   sessionId |-> input.sessionId,
   attemptIndex |-> input.attemptIndex,
   attemptDataJson |-> Stored(input.attemptDataJson),
   isCorrect |-> input.isCorrect,
   createdAt |-> now]

\* requireUser, and the select issued
RecordPuzzleAttempt(context, input) ==
  \/ Unauthorized("recordPuzzleAttempt", context, input)
  \/ /\ RequireUser(context)
     /\ Sleep(Req("recordPuzzleAttempt", context, input, "select", <<>>, <<>>))

\* the database executes the select
RecordPuzzleAttemptSelect(req) ==
  /\ req.action = "recordPuzzleAttempt" /\ req.pc = "select"
  /\ Move(req, [req EXCEPT !.pc = "selected",
                           !.result = Ids(OwnSessions(req.user, req.input.sessionId))])
  /\ UNCHANGED <<templates, sessions, attempts, attemptBy, clock, response>>

\* the handler wakes up with `session`: the check, then the values() object
\* with its new Date(), and the insert issued
RecordPuzzleAttemptCheck(req) ==
  /\ req.action = "recordPuzzleAttempt" /\ req.pc = "selected"
  /\ \/ /\ req.result = <<>>
        /\ Answer(req, "NOT_FOUND", 1, <<>>)
     \/ /\ req.result # <<>>
        /\ Move(req, [req EXCEPT !.pc = "write", !.now = <<clock>>, !.result = <<>>])
        /\ UNCHANGED <<templates, sessions, attempts, attemptBy, clock, response>>

\* the database executes the insert; attemptBy[i] is the user whose request
\* inserted attempts[i] (a history variable: the table has no such column)
RecordPuzzleAttemptInsert(req) ==
  /\ req.action = "recordPuzzleAttempt" /\ req.pc = "write"
  /\ LET id == AttemptUuid(Len(attempts) + 1)
     IN /\ attempts' = Append(attempts, NewAttempt(id, req.input, req.now[1]))
        /\ attemptBy' = Append(attemptBy, req.user)
        /\ Move(req, [req EXCEPT !.pc = "written", !.now = <<>>, !.result = <<id>>])
  /\ UNCHANGED <<templates, sessions, clock, response>>

\* the handler wakes up and returns the id
RecordPuzzleAttemptReturn(req) ==
  /\ req.action = "recordPuzzleAttempt" /\ req.pc = "written"
  /\ Answer(req, "OK", 2, req.result)

\* ------------------------------------------------------------- listPuzzleSessions
ListSessionsInputs ==
  {[puzzleTemplateId |-> Undefined, status |-> Undefined, page |-> 1, pageSize |-> 1],
   [puzzleTemplateId |-> SeedId, status |-> "completed", page |-> 1, pageSize |-> 1],
   [puzzleTemplateId |-> Undefined, status |-> Undefined, page |-> 2, pageSize |-> 1]}

\* the filters reduced with and(): the caller's rows, then the optional ones
ListSessionsWhere(s, user, input) ==
  /\ s.userId = user
  /\ Truthy(input.puzzleTemplateId) => s.puzzleTemplateId = input.puzzleTemplateId
  /\ Truthy(input.status) => s.status = input.status

\* .limit(pageSize).offset((page - 1) * pageSize)
Page(rows, input) ==
  LET offset == (input.page - 1) * input.pageSize
  IN SubSeq(rows, offset + 1,
            IF offset + input.pageSize < Len(rows) THEN offset + input.pageSize
            ELSE Len(rows))

ListSessionsItems(user, input) ==
  LET Where(s) == ListSessionsWhere(s, user, input)
  IN Page(SelectSeq(sessions, Where), input)

\* requireUser, the filters and the offset, and the select issued
ListPuzzleSessions(context, input) ==
  \/ Unauthorized("listPuzzleSessions", context, input)
  \/ /\ RequireUser(context)
     /\ Sleep(Req("listPuzzleSessions", context, input, "select", <<>>, <<>>))

\* the database executes the select
ListPuzzleSessionsSelect(req) ==
  /\ req.action = "listPuzzleSessions" /\ req.pc = "select"
  /\ Move(req, [req EXCEPT !.pc = "selected",
                           !.result = ListSessionsItems(req.user, req.input)])
  /\ UNCHANGED <<templates, sessions, attempts, attemptBy, clock, response>>

\* the handler wakes up and returns the rows it was given
ListPuzzleSessionsReturn(req) ==
  /\ req.action = "listPuzzleSessions" /\ req.pc = "selected"
  /\ Answer(req, "OK", 1, req.result)

\* the clock read by new Date() advances between the steps of the requests
Tick ==
  /\ clock < MaxClock
  /\ clock' = clock + 1
  /\ UNCHANGED <<templates, sessions, attempts, attemptBy, pending, response,
                 started>>

Init ==
  /\ clock = 0
  /\ templates = <<SeedRow(0)>>
  /\ sessions = <<>>
  /\ attempts = <<>>
  /\ attemptBy = <<>>
  /\ pending = EmptyBag
  /\ response = Resp("none", NoUser, <<>>, "OK", 0, <<>>)
  /\ started = 0

Next ==
  \/ Tick
  \/ \E c \in Callers, i \in CreateInputs : CreatePuzzleTemplate(c, i)
  \/ \E req \in BagToSet(pending) : CreatePuzzleTemplateInsert(req)
  \/ \E req \in BagToSet(pending) : CreatePuzzleTemplateReturn(req)
  \/ \E c \in Callers, i \in UpdateInputs : UpdatePuzzleTemplate(c, i)
  \/ \E req \in BagToSet(pending) : UpdatePuzzleTemplateSelect(req)
  \/ \E req \in BagToSet(pending) : UpdatePuzzleTemplateCheck(req)
  \/ \E req \in BagToSet(pending) : UpdatePuzzleTemplateWrite(req)
  \/ \E req \in BagToSet(pending) : UpdatePuzzleTemplateReturn(req)
  \/ \E c \in Callers, i \in ListTemplatesInputs : ListPuzzleTemplates(c, i)
  \/ \E req \in BagToSet(pending) : ListPuzzleTemplatesSelect(req)
  \/ \E req \in BagToSet(pending) : ListPuzzleTemplatesReturn(req)
  \/ \E c \in Callers, i \in StartInputs : StartPuzzleSession(c, i)
  \/ \E req \in BagToSet(pending) : StartPuzzleSessionSelect(req)
  \/ \E req \in BagToSet(pending) : StartPuzzleSessionCheck(req)
  \/ \E req \in BagToSet(pending) : StartPuzzleSessionInsert(req)
  \/ \E req \in BagToSet(pending) : StartPuzzleSessionReturn(req)
  \/ \E c \in Callers, i \in CompleteInputs : CompletePuzzleSession(c, i)
  \/ \E req \in BagToSet(pending) : CompletePuzzleSessionSelect(req)
  \/ \E req \in BagToSet(pending) : CompletePuzzleSessionCheck(req)
  \/ \E req \in BagToSet(pending) : CompletePuzzleSessionWrite(req)
  \/ \E req \in BagToSet(pending) : CompletePuzzleSessionReturn(req)
  \/ \E c \in Callers, i \in RecordInputs : RecordPuzzleAttempt(c, i)
  \/ \E req \in BagToSet(pending) : RecordPuzzleAttemptSelect(req)
  \/ \E req \in BagToSet(pending) : RecordPuzzleAttemptCheck(req)
  \/ \E req \in BagToSet(pending) : RecordPuzzleAttemptInsert(req)
  \/ \E req \in BagToSet(pending) : RecordPuzzleAttemptReturn(req)
  \/ \E c \in Callers, i \in ListSessionsInputs : ListPuzzleSessions(c, i)
  \/ \E req \in BagToSet(pending) : ListPuzzleSessionsSelect(req)
  \/ \E req \in BagToSet(pending) : ListPuzzleSessionsReturn(req)

Spec == Init /\ [][Next]_vars

\* ============================================================= claims
\* The steps of one request asleep: it moves on to `next`, or its handler
\* wakes up and answers.
Steps(req) ==
  BagIn(req, pending) /\ CopiesIn(req, pending') < CopiesIn(req, pending)

Becomes(req, next) ==
  /\ Steps(req)
  /\ pending' = (pending (-) SetToBag({req})) (+) SetToBag({next})
  /\ next.action = req.action /\ next.user = req.user /\ next.input = req.input

\* the database executes the select and leaves the tables as they are
Selects(req, next) ==
  req.pc = "select" /\ Becomes(req, next) /\ next.pc = "selected" /\ tables' = tables

\* the handler wakes up from its select and issues its write
Issues(req, next) ==
  /\ req.pc = "selected" /\ Becomes(req, next) /\ next.pc = "write"
  /\ next.now = <<clock>> /\ tables' = tables

\* the database executes the write
Executes(req, next) ==
  req.pc = "write" /\ Becomes(req, next) /\ next.pc = "written"

Answers(req) ==
  /\ Steps(req)
  /\ pending' = pending (-) SetToBag({req})
  /\ response'.action = req.action
  /\ response'.user = req.user
  /\ response'.input = req.input

\* the handler wakes up from its select and throws: one statement was issued,
\* nothing is returned and nothing is written
Throws(req, code) ==
  /\ req.pc = "selected" /\ Answers(req)
  /\ response'.code = code /\ response'.dbCalls = 1 /\ response'.data = <<>>
  /\ tables' = tables

\* the handler wakes up from its write and returns
Returns(req) ==
  /\ req.pc = "written" /\ Answers(req)
  /\ response'.code = "OK" /\ response'.data = req.result
  /\ tables' = tables

InFlightReqs(action) == {r \in BagToSet(pending) : r.action = action}
After == BagToSet(pending')

\* a request arrived and its handler threw before its first await
ThrewAtOnce == started' = started + 1 /\ pending' = pending

TemplateAt(id) == {i \in 1..Len(templates) : templates[i].id = id}
SessionAt(id) == {i \in 1..Len(sessions) : sessions[i].id = id}

\* C1: a request without a user is answered UNAUTHORIZED by each of the seven
\* actions before its handler's first await: it issues no storage statement
\* (no request without a user is ever asleep on one) and leaves the three
\* tables as they were.
C1_Unauthenticated ==
  /\ [](\A req \in BagToSet(pending) : req.user \in Users)
  /\ [][started' = started + 1
          => \/ /\ ThrewAtOnce
                /\ response'.user = NoUser
                /\ response'.code = "UNAUTHORIZED"
                /\ response'.dbCalls = 0
                /\ tables' = tables
             \/ \E req \in After :
                  /\ req.user \in Users
                  /\ pending' = pending (+) SetToBag({req})
                  /\ response' = response]_vars

W1_Unauthenticated ==
  /\ response.action = "recordPuzzleAttempt"
  /\ response.user = NoUser
  /\ response.code = "UNAUTHORIZED"
  /\ response.input.sessionId \in {sessions[i].id : i \in 1..Len(sessions)}
  /\ pending # EmptyBag

\* C2: no step changes a row whose isSystem is true, and no update asleep on
\* its write names one; an update whose select gave a system row is answered
\* FORBIDDEN for every user, and a select of a system template's id gives that
\* row; the test that decides it refuses a system row even to the user its
\* userId names.
C2_SystemImmutable ==
  /\ [](\A req \in InFlightReqs("updatePuzzleTemplate") :
          req.pc \in {"write", "written"}
            => \A i \in TemplateAt(req.input.id) : ~templates[i].isSystem)
  /\ [][/\ \A i \in 1..Len(templates) :
             templates[i].isSystem
               => Len(templates') >= i /\ templates'[i] = templates[i]
        /\ \A req \in InFlightReqs("updatePuzzleTemplate") :
             /\ (req.pc = "select" /\ Steps(req)
                   /\ \E i \in TemplateAt(req.input.id) : templates[i].isSystem)
                  => \E next \in After :
                       /\ Selects(req, next)
                       /\ next.result # <<>> /\ next.result[1].isSystem
             /\ (req.pc = "selected" /\ Steps(req)
                   /\ req.result # <<>> /\ req.result[1].isSystem)
                  => Throws(req, "FORBIDDEN")
        /\ \A u \in Users : CannotModify([SeedRow(clock) EXCEPT !.userId = u], u)]_vars

W2_SystemImmutable ==
  /\ response.action = "updatePuzzleTemplate"
  /\ response.user \in Users
  /\ response.input.id = SeedId
  /\ response.input.difficulty = "hard"
  /\ templates[1].difficulty = "easy"
  /\ response.code = "FORBIDDEN"
  /\ clock > templates[1].updatedAt

\* C3: an update of a user's template by another user is answered FORBIDDEN:
\* its select gives the owner's row, and its handler then throws, issues no
\* write and leaves the templates table, updatedAt included, as it was; every
\* update asleep on its write is the template owner's.
C3_NonOwnerForbidden ==
  /\ [](\A req \in InFlightReqs("updatePuzzleTemplate") :
          req.pc \in {"write", "written"}
            => \E i \in TemplateAt(req.input.id) : templates[i].userId = req.user)
  /\ [][\A req \in InFlightReqs("updatePuzzleTemplate") :
          /\ (req.pc = "select" /\ Steps(req)
                /\ \E i \in TemplateAt(req.input.id) :
                     /\ ~templates[i].isSystem
                     /\ templates[i].userId \in Users \ {req.user})
               => \E next \in After :
                    /\ Selects(req, next)
                    /\ next.result # <<>>
                    /\ next.result[1].userId \in Users \ {req.user}
          /\ (req.pc = "selected" /\ Steps(req)
                /\ req.result # <<>>
                /\ ~req.result[1].isSystem
                /\ req.result[1].userId \in Users \ {req.user})
               => Throws(req, "FORBIDDEN")]_vars

\* the refused update comes while the owner's own update is asleep on its write
W3_NonOwnerForbidden ==
  /\ response.action = "updatePuzzleTemplate"
  /\ response.code = "FORBIDDEN"
  /\ response.user \in Users
  /\ \E i \in TemplateAt(response.input.id) :
       /\ ~templates[i].isSystem
       /\ templates[i].userId \in Users \ {response.user}
       /\ \E req \in InFlightReqs("updatePuzzleTemplate") :
            req.user = templates[i].userId /\ req.pc = "write"

\* C4 (interleaved requests): a completePuzzleSession asleep on its update
\* names a session of its own user; a session row changes only when the
\* database executes such an update, and keeps its id and userId; the select of
\* another user's call gives nothing, and that call is answered NOT_FOUND and
\* changes nothing; the rows that listPuzzleSessions is given, and returns, are
\* rows of the calling user.
C4_SessionIsolation ==
  /\ [](\A req \in InFlightReqs("completePuzzleSession") :
          req.pc \in {"write", "written"}
            => \E i \in SessionAt(req.input.sessionId) : sessions[i].userId = req.user)
  /\ [](\A req \in InFlightReqs("listPuzzleSessions") :
          \A k \in 1..Len(req.result) : req.result[k].userId = req.user)
  /\ [](response.action = "listPuzzleSessions" /\ response.code = "OK"
          => \A k \in 1..Len(response.data) : response.data[k].userId = response.user)
  /\ [][/\ \A i \in 1..Len(sessions) :
             /\ Len(sessions') >= i
             /\ sessions'[i].id = sessions[i].id
             /\ sessions'[i].userId = sessions[i].userId
             /\ sessions'[i] # sessions[i]
                  => \E req \in InFlightReqs("completePuzzleSession"), next \in After :
                       /\ Executes(req, next)
                       /\ req.user = sessions[i].userId
                       /\ req.input.sessionId = sessions[i].id
        /\ \A req \in InFlightReqs("completePuzzleSession") :
             /\ (req.pc = "select" /\ Steps(req)
                   /\ \A i \in SessionAt(req.input.sessionId) :
                        sessions[i].userId # req.user)
                  => \E next \in After : Selects(req, next) /\ next.result = <<>>
             /\ (req.pc = "selected" /\ Steps(req) /\ req.result = <<>>)
                  => Throws(req, "NOT_FOUND")]_vars

\* another user's call is refused while the owner's update is asleep, after an
\* earlier update of the owner's has been executed
W4_SessionIsolation ==
  /\ \E req \in InFlightReqs("completePuzzleSession") :
       /\ req.pc = "write"
       /\ \E i \in SessionAt(req.input.sessionId) : sessions[i].userId = req.user
  /\ response.action = "completePuzzleSession"
  /\ response.code = "NOT_FOUND"
  /\ \E i \in SessionAt(response.input.sessionId) :
       /\ sessions[i].userId \in Users \ {response.user}
       /\ sessions[i].status = "abandoned"

\* C5: startPuzzleSession by a user succeeds exactly when, as its select is
\* executed, a template with the given id exists that the user owns or that is
\* a system template: the select then gives that template, the handler issues
\* one insert, the insert appends one session row of that user and template,
\* and the handler returns its id; otherwise the select gives nothing and the
\* call is answered NOT_FOUND, issues no insert and appends nothing.
C5_StartVisibleOnly ==
  /\ [](\A req \in InFlightReqs("startPuzzleSession") :
          req.pc \in {"write", "written"}
            => \E i \in TemplateAt(req.input.puzzleTemplateId) :
                 templates[i].userId = req.user \/ templates[i].isSystem)
  /\ [][\A req \in InFlightReqs("startPuzzleSession") :
          Steps(req)
            => LET u == req.user
                   T == req.input.puzzleTemplateId
                   visible == \E i \in TemplateAt(T) :
                                 templates[i].userId = u \/ templates[i].isSystem
               IN CASE req.pc = "select" ->
                         \E next \in After :
                           /\ Selects(req, next)
                           /\ next.result = IF visible THEN <<T>> ELSE <<>>
                    [] req.pc = "selected" ->
                         IF req.result = <<>>
                         THEN Throws(req, "NOT_FOUND")
                         ELSE \E next \in After :
                                Issues(req, next) /\ next.result = <<T>>
                    [] req.pc = "write" ->
                         /\ \E next \in After :
                              /\ Executes(req, next)
                              /\ next.result[1] = sessions'[Len(sessions')].id
                         /\ Len(sessions') = Len(sessions) + 1
                         /\ SubSeq(sessions', 1, Len(sessions)) = sessions
                         /\ sessions'[Len(sessions')].userId = u
                         /\ sessions'[Len(sessions')].puzzleTemplateId = T
                         /\ \A i \in 1..Len(sessions) :
                              sessions[i].id # sessions'[Len(sessions')].id
                    [] OTHER -> Returns(req) /\ response'.dbCalls = 2]_vars

W5_StartVisibleOnly ==
  /\ response.action = "startPuzzleSession"
  /\ response.code = "NOT_FOUND"
  /\ response.user \in Users
  /\ \E i \in TemplateAt(response.input.puzzleTemplateId) :
       templates[i].userId \in Users \ {response.user}
  /\ \E i \in 1..Len(sessions) :
       sessions[i].puzzleTemplateId = SeedId /\ sessions[i].userId = response.user

\* The entity a request names exists but is not the caller's to see.
Invisible(req) ==
  CASE req.action = "updatePuzzleTemplate" ->
         \E i \in TemplateAt(req.input.id) :
           templates[i].userId # req.user /\ ~templates[i].isSystem
    [] req.action = "startPuzzleSession" ->
         \E i \in TemplateAt(req.input.puzzleTemplateId) :
           templates[i].userId # req.user /\ ~templates[i].isSystem
    [] OTHER ->
         \E i \in SessionAt(req.input.sessionId) : sessions[i].userId # req.user

\* The entity a request names does not exist.
Missing(req) ==
  CASE req.action = "updatePuzzleTemplate" -> TemplateAt(req.input.id) = {}
    [] req.action = "startPuzzleSession" ->
         TemplateAt(req.input.puzzleTemplateId) = {}
    [] OTHER -> SessionAt(req.input.sessionId) = {}

ById == {"updatePuzzleTemplate", "startPuzzleSession", "completePuzzleSession",
         "recordPuzzleAttempt"}
ByIdReqs == {r \in BagToSet(pending) : r.action \in ById}

\* what the select of updatePuzzleTemplate gives for another user's template
SeenInvisible(req) ==
  /\ req.action = "updatePuzzleTemplate"
  /\ req.result # <<>>
  /\ req.result[1].userId # req.user /\ ~req.result[1].isSystem

\* the selects scoped by owner give nothing for a missing entity and nothing
\* for one that is not the caller's to see; the select of updatePuzzleTemplate
\* gives nothing for a missing template and the row for another user's
SelectsAsScoped ==
  \A req \in ByIdReqs :
    (req.pc = "select" /\ Steps(req) /\ (Missing(req) \/ Invisible(req)))
      => \E next \in After :
           /\ Selects(req, next)
           /\ IF req.action = "updatePuzzleTemplate" /\ Invisible(req)
              THEN SeenInvisible(next)
              ELSE next.result = <<>>

\* C6 as stated: for each of the four actions that take an id, a call that
\* names an entity that is not the caller's to see is answered as one that
\* names a missing entity is, NOT_FOUND.
C6_Original ==
  [][/\ SelectsAsScoped
     /\ \A req \in ByIdReqs :
          (req.pc = "selected" /\ Steps(req)
             /\ (req.result = <<>> \/ SeenInvisible(req)))
            => Throws(req, "NOT_FOUND")]_vars

\* C6 as amended: startPuzzleSession, completePuzzleSession and
\* recordPuzzleAttempt answer a call that names an entity that is not the
\* caller's to see as they answer one that names a missing entity, NOT_FOUND;
\* updatePuzzleTemplate answers NOT_FOUND for a missing id only, and FORBIDDEN
\* for another user's template.
C6_NotFoundConflation ==
  [][/\ SelectsAsScoped
     /\ \A req \in ByIdReqs :
          /\ (req.pc = "selected" /\ Steps(req) /\ req.result = <<>>)
               => Throws(req, "NOT_FOUND")
          /\ (req.pc = "selected" /\ Steps(req) /\ SeenInvisible(req))
               => Throws(req, "FORBIDDEN")]_vars

W6_NotFoundConflation ==
  /\ response.action = "recordPuzzleAttempt"
  /\ response.code = "NOT_FOUND"
  /\ response.user \in Users
  /\ \E i \in SessionAt(response.input.sessionId) :
       sessions[i].userId \in Users \ {response.user}
  /\ \E i \in 1..Len(templates) :
       templates[i].userId \in Users \ {response.user}

\* C7: completePuzzleSession by the session's owner succeeds whatever the
\* session's status, as its select is executed and as its update is: the
\* select gives the session, the handler issues the update, and when the
\* database has executed it the session has the requested status and the
\* handler's date as completedAt; the handler then returns.
C7_CompleteOverwrites ==
  [][\A req \in InFlightReqs("completePuzzleSession") :
       Steps(req)
         => LET S == req.input.sessionId
                own == \E i \in SessionAt(S) : sessions[i].userId = req.user
            IN CASE req.pc = "select" ->
                      own => \E next \in After :
                               Selects(req, next) /\ next.result # <<>>
                 [] req.pc = "selected" ->
                      req.result # <<>> => \E next \in After : Issues(req, next)
                 [] req.pc = "write" ->
                      /\ \E next \in After : Executes(req, next)
                      /\ SessionAt(S) # {}
                      /\ \A i \in SessionAt(S) :
                           /\ sessions'[i].status = req.input.status
                           /\ sessions'[i].completedAt = req.now
                           /\ sessions'[i].completedAt # <<>>
                 [] OTHER -> Returns(req) /\ response'.dbCalls = 2]_vars

\* a session completed with a score and then abandoned
W7_CompleteOverwrites ==
  /\ response.action = "completePuzzleSession"
  /\ response.code = "OK"
  /\ response.input.status = "abandoned"
  /\ \E i \in SessionAt(response.input.sessionId) :
       /\ sessions[i].status = "abandoned"
       /\ sessions[i].score = <<10>>
       /\ sessions[i].completedAt # <<>>
       /\ sessions[i].startedAt < sessions[i].completedAt[1]

\* C8: recordPuzzleAttempt by a user succeeds exactly when, as its select is
\* executed, the session exists and is the user's, whatever its status and the
\* attempt indexes already there: the select then gives the session, the
\* handler issues one insert, the insert appends one attempt row of that
\* session and changes no session, and the handler returns; otherwise the
\* select gives nothing and the call is answered NOT_FOUND, issues no insert
\* and appends nothing.  Every attempt row, and every insert issued, names a
\* session of the user whose request it is.
C8_AttemptOwnSession ==
  /\ [](/\ Len(attemptBy) = Len(attempts)
        /\ \A k \in 1..Len(attempts) :
             \E i \in SessionAt(attempts[k].sessionId) :
               sessions[i].userId = attemptBy[k])
  /\ [](\A req \in InFlightReqs("recordPuzzleAttempt") :
          req.pc \in {"write", "written"}
            => \E i \in SessionAt(req.input.sessionId) : sessions[i].userId = req.user)
  /\ [][\A req \in InFlightReqs("recordPuzzleAttempt") :
          Steps(req)
            => LET S == req.input.sessionId
                   own == \E i \in SessionAt(S) : sessions[i].userId = req.user
               IN CASE req.pc = "select" ->
                         \E next \in After :
                           /\ Selects(req, next)
                           /\ next.result = IF own THEN <<S>> ELSE <<>>
                    [] req.pc = "selected" ->
                         IF req.result = <<>>
                         THEN Throws(req, "NOT_FOUND")
                         ELSE \E next \in After : Issues(req, next)
                    [] req.pc = "write" ->
                         /\ \E next \in After : Executes(req, next)
                         /\ Len(attempts') = Len(attempts) + 1
                         /\ SubSeq(attempts', 1, Len(attempts)) = attempts
                         /\ attempts'[Len(attempts')].sessionId = S
                         /\ attempts'[Len(attempts')].attemptIndex
                              = req.input.attemptIndex
                         /\ sessions' = sessions
                    [] OTHER -> Returns(req) /\ response'.dbCalls = 2]_vars

\* two attempts with the same index, the second on a finished session
W8_AttemptOwnSession ==
  /\ response.action = "recordPuzzleAttempt"
  /\ response.code = "OK"
  /\ Len(attempts) = 2
  /\ attempts[1].attemptIndex = attempts[2].attemptIndex
  /\ attempts[1].sessionId = attempts[2].sessionId
  /\ \E i \in SessionAt(attempts[2].sessionId) :
       /\ sessions[i].status = "completed"
       /\ sessions[i].completedAt # <<>>
       /\ sessions[i].completedAt[1] < attempts[2].createdAt

PatchFields ==
  {"name", "puzzleType", "difficulty", "description", "dataJson", "solutionJson"}

\* C9: the update of an updatePuzzleTemplate that succeeds sets, in the row as
\* it is when the database executes it, each of the six optional fields that
\* the input gives as a non-empty string, leaves each that is absent or empty
\* as it was, sets updatedAt to the date the handler took, and changes neither
\* id, userId, isSystem, createdAt nor any other row; no other step of the
\* request changes a template.
C9_UpdateFrame ==
  [][\A req \in InFlightReqs("updatePuzzleTemplate") :
       Steps(req)
         => IF req.pc = "write"
            THEN LET in == req.input IN
                 /\ \E next \in After : Executes(req, next)
                 /\ Len(templates') = Len(templates)
                 /\ TemplateAt(in.id) # {}
                 /\ \A i \in 1..Len(templates) :
                      IF templates[i].id = in.id
                      THEN /\ \A f \in PatchFields :
                                templates'[i][f] =
                                  IF in[f] \in {Undefined, ""} THEN templates[i][f]
                                  ELSE in[f]
                           /\ \A f \in {"id", "userId", "isSystem", "createdAt"} :
                                templates'[i][f] = templates[i][f]
                           /\ templates'[i].updatedAt = req.now[1]
                      ELSE templates'[i] = templates[i]
            ELSE /\ templates' = templates
                 /\ req.pc = "written" => Returns(req) /\ response'.dbCalls = 2]_vars

\* a template named "Test" updated with difficulty "hard" and empty description
\* and dataJson: the difficulty is set, the name, both texts and the other
\* absent fields are kept
W9_UpdateFrame ==
  /\ response.action = "updatePuzzleTemplate"
  /\ response.code = "OK"
  /\ response.input.name = Undefined
  /\ response.input.description = ""
  /\ response.input.difficulty = "hard"
  /\ \E i \in TemplateAt(response.input.id) :
       /\ templates[i].name = "Test"
       /\ templates[i].difficulty = "hard"
       /\ templates[i].description = "d"
       /\ templates[i].dataJson = "{}"
       /\ templates[i].puzzleType = "sudoku"
       /\ templates[i].updatedAt > templates[i].createdAt

\* C10: a session has no completedAt exactly when its status is in-progress;
\* a new session is in-progress, and a session that has left in-progress does
\* not return to it.
C10_CompletedAtIffTerminal ==
  /\ [](\A i \in 1..Len(sessions) :
          /\ sessions[i].status \in {"in-progress", "completed", "abandoned"}
          /\ sessions[i].completedAt = <<>> <=> sessions[i].status = "in-progress")
  /\ [][/\ \A i \in 1..Len(sessions) :
             sessions[i].status # "in-progress"
               => sessions'[i].status # "in-progress"
        /\ \A i \in (Len(sessions) + 1)..Len(sessions') :
             sessions'[i].status = "in-progress"]_vars

W10_CompletedAtIffTerminal ==
  /\ response.action = "completePuzzleSession"
  /\ response.code = "OK"
  /\ \E i \in 1..Len(sessions) :
       /\ sessions[i].status = "abandoned"
       /\ sessions[i].score = <<>>
       /\ sessions[i].completedAt # <<>>
====
